---- MODULE Spec2Model ----
(***************************************************************************)
(* A model of scripts/build_dataset.py: the dataset builder that flattens  *)
(* an OpenAPI document into endpoint records, synthesizes a response       *)
(* example from a secondary ("ReadMe") schema when the primary document    *)
(* has none, and derives tag/schema relationship edges.                    *)
(*                                                                         *)
(* Python values are tagged tuples; every Python str is the sequence of    *)
(* its code points, so that upper(), strip(), the f-string concatenation,  *)
(* the _REF_RE search and sorted() are computed and not assumed.  A dict   *)
(* is the sequence of its (key, value) pairs in insertion order.           *)
(***************************************************************************)
EXTENDS Integers, Sequences, FiniteSets, TLC

VARIABLES
  openapi,              \* build_dataset's first argument
  readme_schema,        \* build_dataset's readme_schema argument
  pc,                   \* position of the running build
  pi,                   \* index of the current entry of paths.items()
  mi,                   \* index of the current method of the method tuple
  readme_paths,         \* local readme_paths
  readme_components,    \* local readme_components
  endpoints,            \* local endpoints
  tag_to_endpoints,     \* local tag_to_endpoints (insertion ordered)
  schema_to_endpoints,  \* local schema_to_endpoints (insertion ordered)
  cur,                  \* the locals of the operation being flattened
  stack,                \* the call stack of _ExampleBuilder.build
  ret,                  \* the value the last finished build call returned
  steps,                \* steps the calls of build took for the current operation
  dataset,              \* what build_dataset returned
  err,                  \* the exception build_dataset raised
  run,                  \* number of the running build
  prev                  \* what the previous build of the same inputs returned

vars == <<openapi, readme_schema, pc, pi, mi, readme_paths, readme_components,
          endpoints, tag_to_endpoints, schema_to_endpoints, cur, stack, ret,
          steps, dataset, err, run, prev>>

(***************************************************************************)
(* Python values.                                                          *)
(***************************************************************************)
Null == <<"null">>
Str(s) == <<"str", s>>
Num(n) == <<"int", n>>
Bool(b) == <<"bool", b>>
List(xs) == <<"list", xs>>
Dict(kvs) == <<"dict", kvs>>
\* An object json.dumps rejects (a YAML date, say); s is what str() gives.
Other(s) == <<"other", s>>

IsStr(v) == v[1] = "str"
IsList(v) == v[1] = "list"
IsDict(v) == v[1] = "dict"

EmptyDict == Dict(<<>>)
EmptyList == List(<<>>)

\* key in d
HasKey(d, k) == \E i \in 1..Len(d[2]) : d[2][i][1] = k

\* d.get(k, dflt)
GetOr(d, k, dflt) ==
  IF HasKey(d, k)
  THEN d[2][CHOOSE i \in 1..Len(d[2]) : d[2][i][1] = k][2]
  ELSE dflt

\* d.get(k)
Get(d, k) == GetOr(d, k, Null)

\* d[k] = v: an existing key keeps its place, a new key goes last
DictSet(d, k, v) ==
  IF HasKey(d, k)
  THEN Dict([i \in 1..Len(d[2]) |-> IF d[2][i][1] = k THEN <<k, v>> ELSE d[2][i]])
  ELSE Dict(Append(d[2], <<k, v>>))

\* d.update(e)
RECURSIVE UpdateFrom(_, _, _)
UpdateFrom(d, e, i) ==
  IF i > Len(e[2]) THEN d
  ELSE UpdateFrom(DictSet(d, e[2][i][1], e[2][i][2]), e, i + 1)

Update(d, e) == UpdateFrom(d, e, 1)

\* bool(v)
Truthy(v) ==
  CASE v[1] = "null" -> FALSE
    [] v[1] = "bool" -> v[2]
    [] v[1] = "int" -> v[2] # 0
    [] v[1] \in {"str", "list", "dict"} -> Len(v[2]) > 0
    [] OTHER -> TRUE

\* json.dumps(obj) succeeds
RECURSIVE Serializable(_)
Serializable(v) ==
  CASE v[1] = "other" -> FALSE
    [] v[1] = "list" -> \A i \in 1..Len(v[2]) : Serializable(v[2][i])
    [] v[1] = "dict" -> \A i \in 1..Len(v[2]) : Serializable(v[2][i][2])
    [] OTHER -> TRUE

\* str(obj), for the objects that carry their text
StrOf(obj) == CASE obj[1] = "other" -> obj[2]

\* _jsonable
Jsonable(obj) == IF Serializable(obj) THEN obj ELSE Str(StrOf(obj))

(***************************************************************************)
(* The string literals of the source, as code points.                      *)
(***************************************************************************)
Lit ==
  [
    paths |-> <<112,97,116,104,115>>,                                                                 \* "paths"
    info |-> <<105,110,102,111>>,                                                                     \* "info"
    components |-> <<99,111,109,112,111,110,101,110,116,115>>,                                        \* "components"
    schemas |-> <<115,99,104,101,109,97,115>>,                                                        \* "schemas"
    parameters |-> <<112,97,114,97,109,101,116,101,114,115>>,                                         \* "parameters"
    operationId |-> <<111,112,101,114,97,116,105,111,110,73,100>>,                                    \* "operationId"
    summary |-> <<115,117,109,109,97,114,121>>,                                                       \* "summary"
    description |-> <<100,101,115,99,114,105,112,116,105,111,110>>,                                   \* "description"
    tags |-> <<116,97,103,115>>,                                                                      \* "tags"
    in_ |-> <<105,110>>,                                                                              \* "in"
    name |-> <<110,97,109,101>>,                                                                      \* "name"
    required |-> <<114,101,113,117,105,114,101,100>>,                                                 \* "required"
    schema |-> <<115,99,104,101,109,97>>,                                                             \* "schema"
    responses |-> <<114,101,115,112,111,110,115,101,115>>,                                            \* "responses"
    content |-> <<99,111,110,116,101,110,116>>,                                                       \* "content"
    example |-> <<101,120,97,109,112,108,101>>,                                                       \* "example"
    examples |-> <<101,120,97,109,112,108,101,115>>,                                                  \* "examples"
    value |-> <<118,97,108,117,101>>,                                                                 \* "value"
    ref |-> <<36,114,101,102>>,                                                                       \* "$ref"
    enum |-> <<101,110,117,109>>,                                                                     \* "enum"
    oneOf |-> <<111,110,101,79,102>>,                                                                 \* "oneOf"
    anyOf |-> <<97,110,121,79,102>>,                                                                  \* "anyOf"
    allOf |-> <<97,108,108,79,102>>,                                                                  \* "allOf"
    type |-> <<116,121,112,101>>,                                                                     \* "type"
    properties |-> <<112,114,111,112,101,114,116,105,101,115>>,                                       \* "properties"
    items |-> <<105,116,101,109,115>>,                                                                \* "items"
    object |-> <<111,98,106,101,99,116>>,                                                             \* "object"
    array |-> <<97,114,114,97,121>>,                                                                  \* "array"
    integer |-> <<105,110,116,101,103,101,114>>,                                                      \* "integer"
    number |-> <<110,117,109,98,101,114>>,                                                            \* "number"
    boolean |-> <<98,111,111,108,101,97,110>>,                                                        \* "boolean"
    string |-> <<115,116,114,105,110,103>>,                                                           \* "string"
    app_json |-> <<97,112,112,108,105,99,97,116,105,111,110,47,106,115,111,110>>,                     \* "application/json"
    app_any_json |-> <<97,112,112,108,105,99,97,116,105,111,110,47,42,43,106,115,111,110>>,           \* "application/*+json"
    get |-> <<103,101,116>>,                                                                          \* "get"
    post |-> <<112,111,115,116>>,                                                                     \* "post"
    put |-> <<112,117,116>>,                                                                          \* "put"
    patch |-> <<112,97,116,99,104>>,                                                                  \* "patch"
    delete |-> <<100,101,108,101,116,101>>,                                                           \* "delete"
    head |-> <<104,101,97,100>>,                                                                      \* "head"
    options |-> <<111,112,116,105,111,110,115>>,                                                      \* "options"
    s200 |-> <<50,48,48>>,                                                                            \* "200"
    s201 |-> <<50,48,49>>,                                                                            \* "201"
    s202 |-> <<50,48,50>>,                                                                            \* "202"
    default |-> <<100,101,102,97,117,108,116>>,                                                       \* "default"
    query |-> <<113,117,101,114,121>>,                                                                \* "query"
    path |-> <<112,97,116,104>>,                                                                      \* "path"
    header |-> <<104,101,97,100,101,114>>,                                                            \* "header"
    tag |-> <<116,97,103>>,                                                                           \* "tag"
    space |-> <<32>>,                                                                                 \* " "
    ref_prefix |-> <<35,47,99,111,109,112,111,110,101,110,116,115,47,115,99,104,101,109,97,115,47>>   \* "#/components/schemas/"
  ]

\* the method tuple of the seed search in main, which stops at delete
MethodsOfSeedSearch == <<Lit.get, Lit.post, Lit.put, Lit.patch, Lit.delete>>

\* The method tuple of the flattening loop
METHODS == <<Lit.get, Lit.post, Lit.put, Lit.patch, Lit.delete, Lit.head, Lit.options>>

\* The JSON media types _pick_response_example and _get_media_schema prefer
JSON_MEDIA == <<Lit.app_json, Lit.app_any_json>>

\* The statuses the fallback tries first, in order
PREFERRED_STATUS == <<Lit.s200, Lit.s201, Lit.s202, Lit.default>>

\* The depth beyond which build returns None
MaxDepth == 6

(***************************************************************************)
(* Strings.                                                                *)
(***************************************************************************)
\* str.upper() on ASCII text
Upper(s) == [i \in 1..Len(s) |-> IF s[i] \in 97..122 THEN s[i] - 32 ELSE s[i]]

\* the characters str.strip() removes
Whitespace == {9, 10, 11, 12, 13, 28, 29, 30, 31, 32}

\* not s.strip()
Blank(s) == \A i \in 1..Len(s) : s[i] \in Whitespace

\* a < b on str: the first differing code point decides, a proper prefix is less
LexLess(a, b) ==
  \E i \in 1..(Len(a) + 1) :
    /\ i <= Len(b)
    /\ \A j \in 1..(i - 1) : a[j] = b[j]
    /\ (i = Len(a) + 1 \/ a[i] < b[i])

\* sorted(S) for a set of str
RECURSIVE Sorted(_)
Sorted(S) ==
  IF S = {} THEN <<>>
  ELSE LET m == CHOOSE x \in S : \A y \in S : x = y \/ LexLess(x, y)
       IN <<m>> \o Sorted(S \ {m})

\* _REF_RE.search(ref): the places where "#/components/schemas/" is followed,
\* up to the end of the string, by one or more characters other than "/"
RefMatches(ref) ==
  {i \in 1..Len(ref) :
     /\ i + Len(Lit.ref_prefix) <= Len(ref)
     /\ SubSeq(ref, i, i + Len(Lit.ref_prefix) - 1) = Lit.ref_prefix
     /\ \A j \in (i + Len(Lit.ref_prefix))..Len(ref) : ref[j] # 47}

\* m.group(1) of the match
RefName(ref) ==
  LET i == CHOOSE k \in RefMatches(ref) : \A l \in RefMatches(ref) : k <= l
  IN SubSeq(ref, i + Len(Lit.ref_prefix), Len(ref))

\* the name a node's $ref gives, as the set {name}, or {} when it gives none
RefOf(node) ==
  LET ref == Get(node, Lit.ref)
  IN IF IsStr(ref) /\ RefMatches(ref[2]) # {} THEN {RefName(ref[2])} ELSE {}

\* _collect_schema_refs
RECURSIVE CollectSchemaRefs(_)
CollectSchemaRefs(node) ==
  IF IsDict(node)
  THEN RefOf(node) \cup
       UNION {CollectSchemaRefs(node[2][i][2]) : i \in 1..Len(node[2])}
  ELSE IF IsList(node)
  THEN UNION {CollectSchemaRefs(node[2][i]) : i \in 1..Len(node[2])}
  ELSE {}

(***************************************************************************)
(* _ExampleBuilder.  A call of build is a frame of the call stack; a frame *)
(* is entered once (BuildEnter) and resumed once per nested call that      *)
(* returns to it (BuildResume).                                            *)
(***************************************************************************)
\* _ExampleBuilder._resolve_ref, with self._schemas = schemas
ResolveRef(schema, schemas) ==
  LET ref == Get(schema, Lit.ref)
  IN IF ~IsStr(ref) THEN schema
     ELSE IF RefMatches(ref[2]) = {} THEN schema
     ELSE LET resolved == Get(schemas, RefName(ref[2]))
          IN IF IsDict(resolved) THEN resolved ELSE schema

\* the guard one level late
TooDeepLate(depth) == depth > MaxDepth + 1

\* the guard of build's first statement
TooDeep(depth) == depth > MaxDepth

\* what one stretch of build's body ends with: a return, or a nested call
\* build(child, depth=depth + 1) whose value comes back to the caller in
\* the given mode, at index i of the list being walked, with acc built so far
Return(v) == [op |-> "ret", v |-> v, child |-> Null, mode |-> "", i |-> 0, acc |-> Null]
Call(child, mode, i, acc) ==
  [op |-> "call", v |-> Null, child |-> child, mode |-> mode, i |-> i, acc |-> acc]

\* the least j >= i with xs[j] a dict, or 0
NextDict(xs, i) ==
  LET J == {j \in i..Len(xs) : IsDict(xs[j])}
  IN IF J = {} THEN 0 ELSE CHOOSE j \in J : \A k \in J : j <= k

\* the primitive fallback
Primitive(schema) ==
  LET schema_type == Get(schema, Lit.type)
  IN IF schema_type = Str(Lit.integer) THEN Return(Num(0))
     ELSE IF schema_type = Str(Lit.number) THEN Return(Num(0))
     ELSE IF schema_type = Str(Lit.boolean) THEN Return(Bool(TRUE))
     ELSE IF schema_type = Str(Lit.string) \/ schema_type = Null THEN Return(Str(<<>>))
     ELSE Return(Null)

\* the loop over properties.items(), from its i-th entry with result built so far
PropsFrom(schema, i, result) ==
  LET properties == Get(schema, Lit.properties)
  IN IF ~IsDict(properties) THEN Return(result)
     ELSE LET vals == [k \in 1..Len(properties[2]) |-> properties[2][k][2]]
              j == NextDict(vals, i)
          IN IF j = 0 THEN Return(result) ELSE Call(vals[j], "props", j, result)

\* the array rule
ArrayRule(schema) ==
  LET items == Get(schema, Lit.items)
  IN IF IsDict(items) THEN Call(items, "items", 0, Null) ELSE Return(EmptyList)

\* the object, array and primitive rules
Structural(schema) ==
  LET schema_type == Get(schema, Lit.type)
      properties == Get(schema, Lit.properties)
  IN IF schema_type = Str(Lit.object) \/ IsDict(properties)
     THEN PropsFrom(schema, 1, EmptyDict)
     ELSE IF schema_type = Str(Lit.array) THEN ArrayRule(schema)
     ELSE Primitive(schema)

\* the allOf rule from the i-th branch on, with merged built so far; after the
\* last branch: merged if it is not empty, else the first branch alone
AllOfFrom(schema, i, merged) ==
  LET all_of == Get(schema, Lit.allOf)[2]
      j == NextDict(all_of, i)
  IN IF j # 0 THEN Call(all_of[j], "allOf", j, merged)
     ELSE IF merged # EmptyDict THEN Return(merged)
     ELSE IF IsDict(all_of[1]) THEN Call(all_of[1], "first", 0, Null)
     ELSE Structural(schema)

\* the combiner applies: a non-empty list whose first option is a dict
CombinerApplies(schema, combiner) ==
  LET options == Get(schema, combiner)
  IN IsList(options) /\ Len(options[2]) > 0 /\ IsDict(options[2][1])

\* the combiner, allOf, object, array and primitive rules, in the order of the source
LaterRules(schema) ==
  LET all_of == Get(schema, Lit.allOf)
  IN IF CombinerApplies(schema, Lit.oneOf)
     THEN Call(Get(schema, Lit.oneOf)[2][1], "first", 0, Null)
     ELSE IF CombinerApplies(schema, Lit.anyOf)
     THEN Call(Get(schema, Lit.anyOf)[2][1], "first", 0, Null)
     ELSE IF IsList(all_of) /\ Len(all_of[2]) > 0 THEN AllOfFrom(schema, 1, EmptyDict)
     ELSE Structural(schema)

\* the enum consulted before the example
RulesEnumFirst(schema) ==
  LET enum == Get(schema, Lit.enum)
  IN IF IsList(enum) /\ Len(enum[2]) > 0 THEN Return(enum[2][1])
     ELSE IF HasKey(schema, Lit.example) THEN Return(Get(schema, Lit.example))
     ELSE LaterRules(schema)

\* the rules of build on the resolved node, in the order of the source
Rules(schema) ==
  LET enum == Get(schema, Lit.enum)
  IN IF HasKey(schema, Lit.example) THEN Return(Get(schema, Lit.example))
     ELSE IF IsList(enum) /\ Len(enum[2]) > 0 THEN Return(enum[2][1])
     ELSE LaterRules(schema)

\* build(schema, depth) up to its first nested call or its return
Enter(schema, depth) == IF TooDeep(depth) THEN Return(Null) ELSE Rules(schema)

\* the array rule wrapping whatever its items gave, None included
ResumeWrapsNone(f, r) ==
  CASE f.mode = "first" -> Return(r)
    [] f.mode = "allOf" ->
         AllOfFrom(f.schema, f.i + 1, IF IsDict(r) THEN Update(f.acc, r) ELSE f.acc)
    [] f.mode = "props" ->
         PropsFrom(f.schema, f.i + 1,
                   IF r # Null
                   THEN DictSet(f.acc, Get(f.schema, Lit.properties)[2][f.i][1], r)
                   ELSE f.acc)
    [] f.mode = "items" -> Return(List(<<r>>))

\* build from the return of a nested call with value r, in frame f
Resume(f, r) ==
  CASE f.mode = "first" -> Return(r)
    [] f.mode = "allOf" ->
         AllOfFrom(f.schema, f.i + 1, IF IsDict(r) THEN Update(f.acc, r) ELSE f.acc)
    [] f.mode = "props" ->
         PropsFrom(f.schema, f.i + 1,
                   IF r # Null
                   THEN DictSet(f.acc, Get(f.schema, Lit.properties)[2][f.i][1], r)
                   ELSE f.acc)
    [] f.mode = "items" -> Return(IF r # Null THEN List(<<r>>) ELSE EmptyList)

\* the value build(node, depth=depth) returns with the component schemas:
\* the body run from its entry through each nested call to its return
RECURSIVE Build(_, _, _), BuildFrom(_, _, _, _)
Build(node, depth, schemas) ==
  LET schema == IF TooDeep(depth) THEN node ELSE ResolveRef(node, schemas)
  IN BuildFrom(Enter(schema, depth), schema, depth, schemas)

\* build's body from the step out on: its return value, or the nested call
\* made and the body resumed with the value it gave
BuildFrom(out, schema, depth, schemas) ==
  IF out.op = "ret" THEN out.v
  ELSE BuildFrom(Resume([schema |-> schema, depth |-> depth, mode |-> out.mode,
                         i |-> out.i, acc |-> out.acc],
                        Build(out.child, depth + 1, schemas)),
                 schema, depth, schemas)

\* a frame of a call just made
NewFrame(schema, depth) ==
  [schema |-> schema, depth |-> depth, mode |-> "enter", i |-> 0, acc |-> Null]

NoRet == <<"noret">>

\* the stack and the returned value after the top frame took the step out
AfterStep(out, top, schema) ==
  IF out.op = "ret"
  THEN [stack |-> Tail(stack), ret |-> out.v]
  ELSE [stack |-> <<NewFrame(out.child, top.depth + 1),
                    [schema |-> schema, depth |-> top.depth, mode |-> out.mode,
                     i |-> out.i, acc |-> out.acc]>> \o Tail(stack),
        ret |-> NoRet]

(***************************************************************************)
(* Responses.                                                              *)
(***************************************************************************)
\* the media the two response helpers choose from a content mapping: the
\* first JSON key present, else (also when that entry is None) the first entry
ChosenMedia(content) ==
  LET J == {k \in 1..Len(JSON_MEDIA) : HasKey(content, JSON_MEDIA[k])}
      media == IF J = {} THEN Null
               ELSE Get(content, JSON_MEDIA[CHOOSE k \in J : \A l \in J : k <= l])
  IN IF media = Null /\ Len(content[2]) > 0 THEN content[2][1][2] ELSE media

\* _pick_response_example
PickResponseExample(response) ==
  LET content == Get(response, Lit.content)
  IN IF ~IsDict(content) THEN Null
     ELSE LET media == ChosenMedia(content)
          IN IF ~IsDict(media) THEN Null
             ELSE IF HasKey(media, Lit.example) THEN Get(media, Lit.example)
             ELSE LET examples == Get(media, Lit.examples)
                  IN IF IsDict(examples) /\ Len(examples[2]) > 0
                     THEN LET first == examples[2][1][2]
                          IN IF IsDict(first) /\ HasKey(first, Lit.value)
                             THEN Get(first, Lit.value)
                             ELSE Null
                     ELSE Null

\* _get_media_schema
GetMediaSchema(response) ==
  LET content == Get(response, Lit.content)
  IN IF ~IsDict(content) THEN Null
     ELSE LET media == ChosenMedia(content)
          IN IF ~IsDict(media) THEN Null
             ELSE LET schema == Get(media, Lit.schema)
                  IN IF IsDict(schema) THEN schema ELSE Null

\* d.get(k) if it is a str, else ""
StrField(d, k) == IF IsStr(Get(d, k)) THEN Get(d, k)[2] ELSE <<>>

\* one entry of response_examples
ExampleEntry(status, resp, example) ==
  [status |-> status, description |-> StrField(resp, Lit.description),
   example |-> Jsonable(example)]

\* the entries the loop over responses.items() appends, from the i-th on
\* (a key of the mapping is a str, which str(status) leaves as it is)
RECURSIVE ResponseExamplesFrom(_, _)
ResponseExamplesFrom(responses, i) ==
  IF i > Len(responses[2]) THEN <<>>
  ELSE LET status == responses[2][i][1]
           resp == responses[2][i][2]
           rest == ResponseExamplesFrom(responses, i + 1)
       IN IF ~IsDict(resp) THEN rest
          ELSE LET example == PickResponseExample(resp)
               IN IF example # Null
                  THEN <<ExampleEntry(status, resp, example)>> \o rest
                  ELSE rest

ResponseExamples(op) ==
  LET responses == Get(op, Lit.responses)
  IN IF IsDict(responses) THEN ResponseExamplesFrom(responses, 1) ELSE <<>>

\* the schema references of one response: those of every media's schema
ResponseRefs(resp) ==
  LET content == Get(resp, Lit.content)
  IN IF IsDict(resp) /\ IsDict(content)
     THEN UNION {LET media == content[2][k][2]
                 IN IF IsDict(media) /\ IsDict(Get(media, Lit.schema))
                    THEN CollectSchemaRefs(Get(media, Lit.schema))
                    ELSE {} : k \in 1..Len(content[2])}
     ELSE {}

\* response_schema_refs after the loop over the responses
ResponseSchemaRefs(op) ==
  LET responses == Get(op, Lit.responses)
  IN IF IsDict(responses)
     THEN UNION {IF IsDict(responses[2][k][2]) THEN ResponseRefs(responses[2][k][2]) ELSE {}
                 : k \in 1..Len(responses[2])}
     ELSE {}

(***************************************************************************)
(* Parameters.                                                             *)
(***************************************************************************)
\* _iter_params
IterParams(op) ==
  LET params == Get(op, Lit.parameters)
  IN IF IsList(params) THEN SelectSeq(params[2], IsDict) ELSE <<>>

\* the parameters the partition keeps: both "in" and "name" are str
Located(p) == IsStr(Get(p, Lit.in_)) /\ IsStr(Get(p, Lit.name))

\* the item built for a kept parameter
ParamItem(p) ==
  [name |-> Get(p, Lit.name)[2],
   in_ |-> Get(p, Lit.in_)[2],
   required |-> Truthy(GetOr(p, Lit.required, Bool(FALSE))),
   description |-> StrField(p, Lit.description),
   schema |-> IF HasKey(p, Lit.schema) THEN Jsonable(Get(p, Lit.schema)) ELSE Null]

\* a bucket that keeps only the first parameter of each name
BucketByName(params, where) ==
  LET kept == SelectSeq(params, LAMBDA p : Located(p) /\ Get(p, Lit.in_)[2] = where)
      firsts == {k \in 1..Len(kept) :
                   \A j \in 1..(k - 1) : Get(kept[j], Lit.name) # Get(kept[k], Lit.name)}
      nth(n) == CHOOSE k \in firsts : Cardinality({j \in firsts : j < k}) = n - 1
  IN [n \in 1..Cardinality(firsts) |-> ParamItem(kept[nth(n)])]

\* the bucket of one location: the kept parameters declared there, in order
Bucket(params, where) ==
  LET kept == SelectSeq(params, LAMBDA p : Located(p) /\ Get(p, Lit.in_)[2] = where)
  IN [k \in 1..Len(kept) |-> ParamItem(kept[k])]

(***************************************************************************)
(* One operation.                                                          *)
(***************************************************************************)
\* operation_id
OperationId(op, method, path) ==
  LET operation_id == Get(op, Lit.operationId)
  IN IF ~IsStr(operation_id) \/ Blank(operation_id[2])
     THEN Upper(method) \o Lit.space \o path
     ELSE operation_id[2]

\* tags
Tags(op) ==
  LET tags == Get(op, Lit.tags)
  IN IF IsList(tags)
     THEN LET strs == SelectSeq(tags[2], IsStr) IN [k \in 1..Len(strs) |-> strs[k][2]]
     ELSE <<>>

\* the response the fallback chooses among readme_resps: <<status, response>>,
\* or <<>> when there is none
ChosenResponse(readme_resps) ==
  IF ~IsDict(readme_resps) THEN <<>>
  ELSE LET P == {k \in 1..Len(PREFERRED_STATUS) :
                   /\ HasKey(readme_resps, PREFERRED_STATUS[k])
                   /\ IsDict(Get(readme_resps, PREFERRED_STATUS[k]))}
           D == {k \in 1..Len(readme_resps[2]) : IsDict(readme_resps[2][k][2])}
       IN IF P # {}
          THEN LET st == PREFERRED_STATUS[CHOOSE k \in P : \A l \in P : k <= l]
               IN <<st, Get(readme_resps, st)>>
          ELSE IF D # {}
          THEN readme_resps[2][CHOOSE k \in D : \A l \in D : k <= l]
          ELSE <<>>

\* the response the fallback looks up for (path, method) in the secondary
\* document's paths: <<status, response>>, or <<>>
ReadmeResponse(rpaths, path, method) ==
  LET readme_pi == Get(rpaths, path)
  IN IF ~IsDict(readme_pi) THEN <<>>
     ELSE LET readme_op == Get(readme_pi, method)
          IN IF ~IsDict(readme_op) THEN <<>>
             ELSE ChosenResponse(Get(readme_op, Lit.responses))

\* the fallback is attempted
FallbackWanted(response_examples, rpaths, rcomponents) ==
  response_examples = <<>> /\ IsDict(rpaths) /\ IsDict(rcomponents)

\* only None is discarded
AcceptedUnlessNone(ex) == ex # Null

\* the synthesized value is kept
Accepted(ex) == ex # Null /\ ex # EmptyDict /\ ex # EmptyList

\* str(chosen_status or "200")
StatusText(chosen_status) == IF chosen_status = <<>> THEN Lit.s200 ELSE chosen_status

(***************************************************************************)
(* The relationship graph.                                                 *)
(***************************************************************************)
\* groups[key].add(id) on a defaultdict(set), kept as <<key, ids>> pairs in
\* the order the keys were first used
GroupAdd(groups, key, id) ==
  IF \E k \in 1..Len(groups) : groups[k][1] = key
  THEN [k \in 1..Len(groups) |->
          IF groups[k][1] = key THEN <<key, groups[k][2] \cup {id}>> ELSE groups[k]]
  ELSE Append(groups, <<key, {id}>>)

\* for key in keys: groups[key].add(id)
RECURSIVE GroupAddAll(_, _, _)
GroupAddAll(groups, keys, id) ==
  IF keys = <<>> THEN groups
  ELSE GroupAddAll(GroupAdd(groups, Head(keys), id), Tail(keys), id)

\* the orders in which a set can be iterated
Orders(S) ==
  {s \in [1..Cardinality(S) -> S] : \A a, b \in 1..Cardinality(S) : s[a] = s[b] => a = b}

\* every pair of the group joined, not only the consecutive ones
RECURSIVE PairsOf(_, _, _)
PairsOf(ids_list, key, edge_type) ==
  IF Len(ids_list) < 2 THEN <<>>
  ELSE [k \in 1..(Len(ids_list) - 1) |->
          [source |-> ids_list[1], target |-> ids_list[k + 1],
           type |-> edge_type, key |-> key]]
         \o PairsOf(Tail(ids_list), key, edge_type)

ChainAllPairs(key, ids, edge_type) == PairsOf(Sorted(ids), key, edge_type)

\* the chain of one group: zip(ids_list, ids_list[1:])
Chain(key, ids, edge_type) ==
  LET ids_list == Sorted(ids)
  IN IF Len(ids_list) < 2 THEN <<>>
     ELSE [k \in 1..(Len(ids_list) - 1) |->
             [source |-> ids_list[k], target |-> ids_list[k + 1],
              type |-> edge_type, key |-> key]]

\* add_edges_from_groups: the edges it appends, group after group
RECURSIVE EdgesFromGroups(_, _)
EdgesFromGroups(groups, edge_type) ==
  IF groups = <<>> THEN <<>>
  ELSE Chain(Head(groups)[1], Head(groups)[2], edge_type)
         \o EdgesFromGroups(Tail(groups), edge_type)

(***************************************************************************)
(* The documents the builds are run on.                                    *)
(***************************************************************************)
\* builds of the same inputs, one after the other
MaxRuns == 2

\* nesting of the deepest schema drawn
MaxNest == 8

Txt ==
  [
    a |-> <<47,97>>,                                                           \* '/a'
    b |-> <<47,98>>,                                                           \* '/b'
    c |-> <<47,99>>,                                                           \* '/c'
    x |-> <<120>>,                                                             \* 'x'
    y |-> <<121>>,                                                             \* 'y'
    T |-> <<84>>,                                                              \* 'T'
    U |-> <<85>>,                                                              \* 'U'
    S1 |-> <<83,49>>,                                                          \* 'S1'
    S2 |-> <<83,50>>,                                                          \* 'S2'
    A |-> <<65>>,                                                              \* 'A'
    B |-> <<66>>,                                                              \* 'B'
    C |-> <<67>>,                                                              \* 'C'
    E |-> <<69>>,                                                              \* 'E'
    L |-> <<76>>,                                                              \* 'L'
    N |-> <<78>>,                                                              \* 'N'
    W |-> <<87>>,                                                              \* 'W'
    Missing |-> <<77,105,115,115,105,110,103>>,                                \* 'Missing'
    get_a |-> <<71,69,84,32,47,97>>,                                           \* 'GET /a'
    blank |-> <<32,32>>,                                                       \* '  '
    ok |-> <<111,107>>,                                                        \* 'ok'
    e |-> <<101>>,                                                             \* 'e'
    trace |-> <<116,114,97,99,101>>,                                           \* 'trace'
    text_xml |-> <<116,101,120,116,47,120,109,108>>,                           \* 'text/xml'
    text_plain |-> <<116,101,120,116,47,112,108,97,105,110>>,                  \* 'text/plain'
    s404 |-> <<52,48,52>>,                                                     \* '404'
    s500 |-> <<53,48,48>>,                                                     \* '500'
    other_yaml |-> <<111,116,104,101,114,46,121,97,109,108>>,                  \* 'other.yaml'
    items0 |-> <<47,105,116,101,109,115,47,48>>,                               \* '/items/0'
    definitions |-> <<35,47,100,101,102,105,110,105,116,105,111,110,115,47>>,  \* '#/definitions/'
    n |-> <<110>>,                                                             \* 'n'
    self |-> <<115,101,108,102>>,                                              \* 'self'
    p |-> <<112>>,                                                             \* 'p'
    q |-> <<113>>,                                                             \* 'q'
    k |-> <<107>>,                                                             \* 'k'
    m |-> <<109>>,                                                             \* 'm'
    title |-> <<116,105,116,108,101>>,                                         \* 'title'
    date |-> <<50,48,50,48,45,48,49,45,48,49>>,                                \* '2020-01-01'
    id |-> <<105,100>>,                                                        \* 'id'
    limit |-> <<108,105,109,105,116>>,                                         \* 'limit'
    cookie |-> <<99,111,111,107,105,101>>,                                     \* 'cookie'
    null |-> <<110,117,108,108>>,                                              \* 'null'
    first |-> <<102,105,114,115,116>>,                                         \* 'first'
    second |-> <<115,101,99,111,110,100>>,                                     \* 'second'
    newline |-> <<10>>                                                         \* '\n'
  ]

Absent == <<"absent">>

\* the dicts with, for each <<key, choices>> of spec in order, one of the
\* choices under the key, or no such key for the choice Absent
RECURSIVE PairsFrom(_, _)
PairsFrom(spec, i) ==
  IF i > Len(spec) THEN {<<>>}
  ELSE {IF v = Absent THEN rest ELSE <<<<spec[i][1], v>>>> \o rest :
          v \in spec[i][2], rest \in PairsFrom(spec, i + 1)}

Dicts(spec) == {Dict(kvs) : kvs \in PairsFrom(spec, 1)}

One(k, v) == Dict(<<<<k, v>>>>)
Ref(text) == One(Lit.ref, Str(text))
LocalRef(name) == Ref(Lit.ref_prefix \o name)
Typed(t) == One(Lit.type, Str(t))
JsonBody(schema) == One(Lit.content, One(Lit.app_json, One(Lit.schema, schema)))

\* ---- primary documents for the flattening and the graph ----
RespS1 ==
  One(Lit.s200, Dict(<<<<Lit.description, Str(Txt.ok)>>,
                       <<Lit.content, One(Lit.app_json, One(Lit.schema, LocalRef(Txt.S1)))>>>>))

RespS12 ==
  Dict(<<
    <<Lit.s200, One(Lit.content, Dict(<<
       <<Lit.app_json, One(Lit.schema, Dict(<<<<Lit.type, Str(Lit.array)>>,
                                              <<Lit.items, LocalRef(Txt.S1)>>>>))>>,
       <<Txt.text_xml, One(Lit.schema, LocalRef(Txt.S2))>>>>))>>,
    <<Txt.s404, One(Lit.content, One(Txt.text_plain,
       One(Lit.schema, One(Lit.properties, One(Txt.e, LocalRef(Txt.S2))))))>>>>)

RespS2Ex ==
  One(Lit.s200, One(Lit.content, One(Lit.app_json,
    Dict(<<<<Lit.schema, LocalRef(Txt.S2)>>, <<Lit.example, Num(1)>>>>))))

PathLevelParams ==
  List(<<Dict(<<<<Lit.name, Str(Txt.id)>>, <<Lit.in_, Str(Lit.path)>>,
                <<Lit.required, Bool(TRUE)>>>>),
         Str(Txt.x),
         Dict(<<<<Lit.name, Str(Txt.k)>>, <<Lit.in_, Str(Txt.cookie)>>>>)>>)

OpLevelParams ==
  List(<<Dict(<<<<Lit.name, Str(Txt.limit)>>, <<Lit.in_, Str(Lit.query)>>,
                <<Lit.required, Num(1)>>, <<Lit.schema, Typed(Lit.integer)>>>>),
         Dict(<<<<Lit.name, Str(Txt.id)>>, <<Lit.in_, Str(Lit.path)>>>>),
         Dict(<<<<Lit.in_, Str(Lit.header)>>>>),
         Dict(<<<<Lit.name, Str(Txt.m)>>, <<Lit.in_, Str(Lit.header)>>,
                <<Lit.description, Str(Txt.ok)>>>>)>>)

OpPlain == EmptyDict
OpX == Dict(<<<<Lit.operationId, Str(Txt.x)>>, <<Lit.tags, List(<<Str(Txt.T)>>)>>,
              <<Lit.responses, RespS1>>>>)
OpGetA == Dict(<<<<Lit.operationId, Str(Txt.get_a)>>, <<Lit.summary, Str(Txt.ok)>>,
                 <<Lit.tags, List(<<Str(Txt.T), Str(Txt.U)>>)>>,
                 <<Lit.parameters, OpLevelParams>>, <<Lit.responses, RespS12>>>>)
OpBlank == Dict(<<<<Lit.operationId, Str(Txt.blank)>>,
                  <<Lit.tags, List(<<Str(Txt.T), Num(5), Str(Txt.T)>>)>>,
                  <<Lit.responses, RespS12>>>>)
OpY == Dict(<<<<Lit.operationId, Str(Txt.y)>>, <<Lit.description, Str(Txt.ok)>>,
              <<Lit.tags, List(<<Str(Txt.U)>>)>>, <<Lit.responses, RespS2Ex>>>>)
OpOdd == Dict(<<<<Lit.operationId, Num(7)>>, <<Lit.tags, Str(Txt.T)>>,
                <<Lit.responses, RespS1>>>>)

GraphDocs ==
  {<<Dict(<<<<Lit.info, One(Txt.title, Str(Txt.ok))>>,
            <<Lit.paths, Dict(<<<<Txt.a, pa>>, <<Txt.c, EmptyList>>, <<Txt.b, pb>>>>)>>>>),
     Null>> :
     pa \in Dicts(<<<<Lit.parameters, {PathLevelParams}>>,
                    <<Lit.get, {Absent, Str(Txt.x), OpPlain, OpX, OpGetA, OpBlank, OpY, OpOdd}>>,
                    <<Lit.post, {Absent, OpX, OpGetA, OpBlank}>>>>),
     pb \in Dicts(<<<<Txt.trace, {OpX}>>,
                    <<Lit.get, {Str(Txt.x), OpX, OpGetA, OpY}>>,
                    <<Lit.delete, {Absent, OpY}>>>>)}

\* ---- secondary documents for the synthesizer ----
\* the primary document whose one operation has no example of its own
PlainPrimary(op) == One(Lit.paths, One(Txt.a, One(Lit.get, op)))

NoExampleOp == One(Lit.responses, One(Lit.s200, One(Lit.description, Str(Txt.ok))))

Components ==
  Dict(<<
    <<Txt.A, Dict(<<<<Lit.type, Str(Lit.object)>>,
                    <<Lit.properties, Dict(<<<<Txt.n, Typed(Lit.integer)>>,
                                             <<Txt.self, LocalRef(Txt.A)>>>>)>>>>)>>,
    <<Txt.B, One(Lit.allOf, List(<<LocalRef(Txt.C),
                                   One(Lit.properties, One(Txt.q, Typed(Lit.boolean)))>>))>>,
    <<Txt.C, One(Lit.oneOf, List(<<LocalRef(Txt.B)>>))>>,
    <<Txt.E, Dict(<<<<Lit.type, Str(Lit.integer)>>, <<Lit.example, Str(Txt.e)>>>>)>>,
    <<Txt.L, Dict(<<<<Lit.type, Str(Lit.array)>>, <<Lit.items, LocalRef(Txt.L)>>>>)>>,
    <<Txt.N, Str(Txt.x)>>,
    <<Txt.W, One(Lit.allOf, List(<<LocalRef(Txt.W)>>))>>>>)

\* the secondary document that gives schema for GET /a
ReadmeWith(schema) ==
  Dict(<<<<Lit.paths, One(Txt.a, One(Lit.get, One(Lit.responses,
            One(Lit.s200, Dict(<<<<Lit.description, Str(Txt.ok)>>,
                                 <<Lit.content, One(Lit.app_json, One(Lit.schema, schema))>>>>)))))>>,
         <<Lit.components, One(Lit.schemas, Components)>>>>)

PrioritySchemas ==
  Dicts(<<<<Lit.example, {Absent, Str(Txt.e), Null}>>,
          <<Lit.enum, {Absent, List(<<Str(Txt.y), Str(Txt.x)>>), EmptyList}>>,
          <<Lit.oneOf, {Absent, List(<<Typed(Lit.integer), Typed(Lit.string)>>),
                        List(<<Str(Txt.x), Typed(Lit.integer)>>)}>>,
          <<Lit.anyOf, {Absent, List(<<Typed(Lit.boolean)>>)}>>,
          <<Lit.allOf, {Absent, List(<<One(Lit.properties, One(Txt.p, Typed(Lit.string)))>>)}>>,
          <<Lit.type, {Absent, Str(Lit.array), Str(Txt.null)}>>>>)

RefTexts ==
  {Lit.ref_prefix \o Txt.E,
   Txt.other_yaml \o Lit.ref_prefix \o Txt.E,
   Lit.ref_prefix \o Txt.E \o Txt.items0,
   Lit.ref_prefix \o Txt.E \o Txt.newline,
   Lit.ref_prefix \o Txt.Missing,
   Lit.ref_prefix \o Txt.N,
   Lit.ref_prefix,
   Txt.definitions \o Txt.E,
   Txt.E,
   Lit.ref_prefix \o Txt.A,
   Lit.ref_prefix \o Txt.B,
   Lit.ref_prefix \o Txt.L,
   Lit.ref_prefix \o Txt.W}

RefSchemas ==
  Dicts(<<<<Lit.ref, {Str(t) : t \in RefTexts} \cup {Num(3)}>>,
          <<Lit.type, {Absent, Str(Lit.integer)}>>>>)

\* n arrays (or n objects) around an integer
RECURSIVE NestArray(_)
NestArray(n) ==
  IF n = 0 THEN Typed(Lit.integer)
  ELSE Dict(<<<<Lit.type, Str(Lit.array)>>, <<Lit.items, NestArray(n - 1)>>>>)

RECURSIVE NestObject(_)
NestObject(n) ==
  IF n = 0 THEN Typed(Lit.integer)
  ELSE One(Lit.properties, One(Txt.p, NestObject(n - 1)))

DeepSchemas == {NestArray(n) : n \in 0..MaxNest} \cup {NestObject(n) : n \in 1..MaxNest}

AllOfParts ==
  {One(Lit.properties, One(Txt.k, Typed(Lit.integer))),
   One(Lit.properties, Dict(<<<<Txt.k, Typed(Lit.string)>>, <<Txt.m, Typed(Lit.boolean)>>>>)),
   Typed(Lit.object),
   Typed(Lit.integer),
   Str(Txt.x),
   LocalRef(Txt.A)}

AllOfSchemas ==
  {Dict(<<<<Lit.allOf, List(<<x, y>>)>>, <<Lit.type, Str(Lit.number)>>>>) :
     x \in AllOfParts, y \in AllOfParts}

ArraySchemas ==
  Dicts(<<<<Lit.type, {Str(Lit.array)}>>,
          <<Lit.items, {Absent, Typed(Lit.integer), Typed(Txt.null), Str(Txt.x),
                        LocalRef(Txt.E), Typed(Lit.object), List(<<Typed(Lit.integer)>>)}>>>>)

ObjectSchemas ==
  Dicts(<<<<Lit.type, {Absent, Str(Lit.object), List(<<Str(Lit.string), Str(Txt.null)>>)}>>,
          <<Lit.properties, {Absent, EmptyDict, Str(Txt.x),
                             Dict(<<<<Txt.p, Typed(Txt.null)>>, <<Txt.q, Str(Txt.x)>>,
                                    <<Txt.k, Typed(Lit.number)>>>>)}>>>>)

SynthSchemas ==
  PrioritySchemas \cup RefSchemas \cup DeepSchemas \cup AllOfSchemas
    \cup ArraySchemas \cup ObjectSchemas

SynthDocs == {<<PlainPrimary(NoExampleOp), ReadmeWith(s)>> : s \in SynthSchemas}

\* ---- primary operations with and without examples, against secondary
\* ---- documents that are absent, malformed or incomplete ----
PrimaryOps ==
  {EmptyDict,
   One(Lit.responses, One(Lit.s200, Dict(<<<<Lit.description, Str(Txt.ok)>>,
      <<Lit.content, One(Lit.app_json, One(Lit.example, Num(1)))>>>>))),
   One(Lit.responses, Dict(<<
      <<Lit.s200, One(Lit.content, One(Lit.app_json, One(Lit.example, Null)))>>,
      <<Txt.s404, Str(Txt.x)>>>>)),
   One(Lit.responses, Dict(<<
      <<Lit.s200, One(Lit.content, One(Txt.text_xml, One(Lit.examples, Dict(<<
         <<Txt.first, One(Lit.value, Str(Txt.e))>>,
         <<Txt.second, One(Lit.value, Num(2))>>>>))))>>,
      <<Txt.s500, One(Lit.content, One(Lit.app_any_json, One(Lit.example, Other(Txt.date))))>>>>)),
   One(Lit.responses, EmptyList),
   One(Lit.responses, One(Lit.s200, One(Lit.content, Dict(<<
      <<Lit.app_json, Null>>,
      <<Txt.text_plain, One(Lit.example, Num(2))>>>>))))}

\* responses of the secondary operation
ReadmeResponses ==
  {Null,
   EmptyDict,
   One(Lit.s200, Null),
   Dict(<<<<Lit.s200, Null>>, <<Txt.s404, JsonBody(Typed(Lit.integer))>>>>),
   Dict(<<<<Txt.s500, JsonBody(Typed(Lit.boolean))>>, <<Txt.s404, JsonBody(Typed(Lit.integer))>>>>),
   Dict(<<<<Lit.default, JsonBody(Typed(Lit.boolean))>>, <<Lit.s201, JsonBody(Typed(Lit.integer))>>>>),
   One(<<>>, JsonBody(Typed(Lit.integer))),
   One(Lit.s200, EmptyDict),
   One(Lit.s200, One(Lit.content, Null)),
   One(Lit.s200, One(Lit.content, One(Lit.app_json, Null))),
   One(Lit.s200, One(Lit.content, One(Lit.app_json, One(Lit.schema, Str(Txt.x))))),
   One(Lit.s200, One(Lit.content, Dict(<<
      <<Txt.text_plain, One(Lit.schema, Typed(Lit.integer))>>,
      <<Lit.app_any_json, One(Lit.schema, Typed(Lit.boolean))>>>>))),
   One(Lit.s200, JsonBody(Typed(Txt.null))),
   One(Lit.s200, JsonBody(EmptyDict)),
   One(Lit.s200, JsonBody(Typed(Lit.object))),
   One(Lit.s200, JsonBody(Typed(Lit.array))),
   One(Lit.s200, JsonBody(LocalRef(Txt.E)))}

\* paths of the secondary document
ReadmePaths ==
  {Null, EmptyList, EmptyDict, One(Txt.b, EmptyDict), One(Txt.a, Null), One(Txt.a, EmptyDict),
   One(Txt.a, One(Lit.get, Null)), One(Txt.a, One(Lit.post, EmptyDict)),
   One(Txt.a, One(Lit.get, EmptyDict))}
  \cup {One(Txt.a, One(Lit.get, One(Lit.responses, r))) : r \in ReadmeResponses}

GoodPaths ==
  One(Txt.a, One(Lit.get, One(Lit.responses, One(Lit.s200, JsonBody(Typed(Lit.integer))))))

Readmes ==
  {Null, Str(Txt.x), EmptyList, EmptyDict}
  \cup {Dict(<<<<Lit.components, c>>, <<Lit.paths, GoodPaths>>>>) :
          c \in {Null, EmptyList, Str(Txt.x), EmptyDict, One(Lit.schemas, Null),
                 One(Lit.schemas, EmptyList)}}
  \cup {One(Lit.paths, p) : p \in ReadmePaths}
  \cup {Dict(<<<<Lit.paths, p>>, <<Lit.components, One(Lit.schemas, Components)>>>>) :
          p \in ReadmePaths}

FallbackDocs == {<<PlainPrimary(op), rs>> : op \in PrimaryOps, rs \in Readmes}

\* ---- primary documents without a paths mapping ----
BadPrimaryDocs ==
  {<<d, rs>> : d \in {EmptyDict, One(Lit.paths, Null), One(Lit.paths, EmptyList),
                      One(Lit.info, Other(Txt.date))},
               rs \in {Null, One(Lit.components, Null)}}

\* a primary document whose info json.dumps rejects
OddInfoDocs ==
  {<<Dict(<<<<Lit.info, Other(Txt.date)>>, <<Lit.paths, One(Txt.a, One(Lit.head, OpX))>>>>), Null>>,
   <<One(Lit.paths, EmptyDict), Null>>}

Inputs == GraphDocs \cup SynthDocs \cup FallbackDocs \cup BadPrimaryDocs \cup OddInfoDocs

(***************************************************************************)
(* build_dataset, one step of its loops at a time.                         *)
(***************************************************************************)
Paths == Get(openapi, Lit.paths)[2]

NoOp ==
  [operation_id |-> <<>>, method |-> <<>>, path |-> <<>>, summary |-> <<>>,
   description |-> <<>>, tags |-> <<>>, query_params |-> <<>>, path_params |-> <<>>,
   header_params |-> <<>>, response_examples |-> <<>>, response_schema_refs |-> {},
   chosen_status |-> <<>>, chosen_description |-> <<>>]

NoDataset == [info |-> Null, endpoints |-> <<>>, edges |-> <<>>]

\* readme_schema.get("components", {}) has no .get of its own
ComponentsRaise(rs) == IsDict(rs) /\ ~IsDict(GetOr(rs, Lit.components, EmptyDict))

\* readme_components
ReadmeComponents(rs) ==
  IF IsDict(rs)
  THEN GetOr(GetOr(rs, Lit.components, EmptyDict), Lit.schemas, EmptyDict)
  ELSE EmptyDict

\* the statements before the loops
Start ==
  /\ pc = "start"
  /\ IF ~IsDict(Get(openapi, Lit.paths))
     THEN /\ pc' = "raised"
          /\ err' = "ValueError"
          /\ UNCHANGED <<readme_paths, readme_components>>
     ELSE IF ComponentsRaise(readme_schema)
     THEN /\ pc' = "raised"
          /\ err' = "AttributeError"
          /\ UNCHANGED <<readme_paths, readme_components>>
     ELSE /\ pc' = "loop"
          /\ err' = err
          /\ readme_paths' =
               IF IsDict(readme_schema) THEN Get(readme_schema, Lit.paths) ELSE Null
          /\ readme_components' = ReadmeComponents(readme_schema)
  /\ pi' = 1
  /\ mi' = 1
  /\ endpoints' = <<>>
  /\ tag_to_endpoints' = <<>>
  /\ schema_to_endpoints' = <<>>
  /\ UNCHANGED <<openapi, readme_schema, cur, stack, ret, steps, dataset, run, prev>>

\* the loop variables after the current method
NextPi == IF mi = Len(METHODS) THEN pi + 1 ELSE pi
NextMi == IF mi = Len(METHODS) THEN 1 ELSE mi + 1

\* a path item that is no dict is passed over
SkipPathItem ==
  /\ pc = "loop"
  /\ pi <= Len(Paths)
  /\ ~IsDict(Paths[pi][2])
  /\ pi' = pi + 1
  /\ mi' = 1
  /\ UNCHANGED <<openapi, readme_schema, pc, readme_paths, readme_components,
                 endpoints, tag_to_endpoints, schema_to_endpoints, cur, stack, ret,
                 steps, dataset, err, run, prev>>

\* a method with no operation dict under the path item is passed over
SkipMethod ==
  /\ pc = "loop"
  /\ pi <= Len(Paths)
  /\ IsDict(Paths[pi][2])
  /\ ~IsDict(Get(Paths[pi][2], METHODS[mi]))
  /\ pi' = NextPi
  /\ mi' = NextMi
  /\ UNCHANGED <<openapi, readme_schema, pc, readme_paths, readme_components,
                 endpoints, tag_to_endpoints, schema_to_endpoints, cur, stack, ret,
                 steps, dataset, err, run, prev>>

\* the locals of one operation, up to the fallback's choice of a response
Flatten(path, path_item, method, op) ==
  LET params == IterParams(path_item) \o IterParams(op)
      response_examples == ResponseExamples(op)
      chosen == IF FallbackWanted(response_examples, readme_paths, readme_components)
                THEN ReadmeResponse(readme_paths, path, method)
                ELSE <<>>
  IN [operation_id |-> OperationId(op, method, path),
      method |-> method,
      path |-> path,
      summary |-> StrField(op, Lit.summary),
      description |-> StrField(op, Lit.description),
      tags |-> Tags(op),
      query_params |-> Bucket(params, Lit.query),
      path_params |-> Bucket(params, Lit.path),
      header_params |-> Bucket(params, Lit.header),
      response_examples |-> response_examples,
      response_schema_refs |-> ResponseSchemaRefs(op),
      chosen_status |-> IF chosen = <<>> THEN <<>> ELSE chosen[1],
      chosen_description |->
        IF chosen = <<>> THEN <<>> ELSE StrField(chosen[2], Lit.description)]

\* the schema the fallback hands to example_builder.build, or Null
FallbackSchema(path, method, op) ==
  LET chosen == IF FallbackWanted(ResponseExamples(op), readme_paths, readme_components)
                THEN ReadmeResponse(readme_paths, path, method)
                ELSE <<>>
  IN IF chosen = <<>> THEN Null ELSE GetMediaSchema(chosen[2])

\* an operation dict: its locals are computed, and the fallback, when it
\* finds a schema, calls example_builder.build(schema)
FlattenOp ==
  /\ pc = "loop"
  /\ pi <= Len(Paths)
  /\ IsDict(Paths[pi][2])
  /\ IsDict(Get(Paths[pi][2], METHODS[mi]))
  /\ LET path == Paths[pi][1]
         path_item == Paths[pi][2]
         method == METHODS[mi]
         op == Get(path_item, method)
         schema == FallbackSchema(path, method, op)
     IN /\ cur' = Flatten(path, path_item, method, op)
        /\ stack' = IF IsDict(schema) THEN <<NewFrame(schema, 0)>> ELSE <<>>
  /\ ret' = NoRet
  /\ steps' = 0
  /\ pc' = "synth"
  /\ UNCHANGED <<openapi, readme_schema, pi, mi, readme_paths, readme_components,
                 endpoints, tag_to_endpoints, schema_to_endpoints, dataset, err,
                 run, prev>>

\* a call of build runs to its first nested call or to its return
BuildEnter ==
  /\ pc = "synth"
  /\ stack # <<>>
  /\ Head(stack).mode = "enter"
  /\ LET top == Head(stack)
         schema == IF TooDeep(top.depth) THEN top.schema
                   ELSE ResolveRef(top.schema, readme_components)
         after == AfterStep(Enter(schema, top.depth), top, schema)
     IN /\ stack' = after.stack
        /\ ret' = after.ret
  /\ steps' = steps + 1
  /\ UNCHANGED <<openapi, readme_schema, pc, pi, mi, readme_paths, readme_components,
                 endpoints, tag_to_endpoints, schema_to_endpoints, cur, dataset, err,
                 run, prev>>

\* a nested call returned: its caller runs on to the next call or its return
BuildResume ==
  /\ pc = "synth"
  /\ stack # <<>>
  /\ Head(stack).mode # "enter"
  /\ LET top == Head(stack)
         after == AfterStep(Resume(top, ret), top, top.schema)
     IN /\ stack' = after.stack
        /\ ret' = after.ret
  /\ steps' = steps + 1
  /\ UNCHANGED <<openapi, readme_schema, pc, pi, mi, readme_paths, readme_components,
                 endpoints, tag_to_endpoints, schema_to_endpoints, cur, dataset, err,
                 run, prev>>

\* responseExamples of the record: the synthesized entry when build was
\* called and its value is kept, else what the responses gave
FinalExamples(locals, ex) ==
  IF ex # NoRet /\ Accepted(ex)
  THEN Append(locals.response_examples,
              [status |-> StatusText(locals.chosen_status),
               description |-> locals.chosen_description,
               example |-> Jsonable(ex)])
  ELSE locals.response_examples

\* the endpoint record
Endpoint(locals, ex) ==
  [id |-> locals.operation_id,
   method |-> Upper(locals.method),
   path |-> locals.path,
   summary |-> locals.summary,
   description |-> locals.description,
   tags |-> locals.tags,
   queryParams |-> locals.query_params,
   pathParams |-> locals.path_params,
   headerParams |-> locals.header_params,
   responseExamples |-> FinalExamples(locals, ex),
   schemaRefs |-> Sorted(locals.response_schema_refs)]

\* the record is appended and the operation joins the groups of its tags and
\* of its schema references; the set of references is iterated in some order
EmitEndpoint ==
  /\ pc = "synth"
  /\ stack = <<>>
  /\ endpoints' = Append(endpoints, Endpoint(cur, ret))
  /\ tag_to_endpoints' = GroupAddAll(tag_to_endpoints, cur.tags, cur.operation_id)
  /\ \E order \in Orders(cur.response_schema_refs) :
       schema_to_endpoints' = GroupAddAll(schema_to_endpoints, order, cur.operation_id)
  /\ pc' = "loop"
  /\ pi' = NextPi
  /\ mi' = NextMi
  /\ cur' = NoOp
  /\ ret' = NoRet
  /\ UNCHANGED <<openapi, readme_schema, readme_paths, readme_components, stack,
                 steps, dataset, err, run, prev>>

\* edges
Edges(tag_groups, schema_groups) ==
  EdgesFromGroups(tag_groups, Lit.tag) \o EdgesFromGroups(schema_groups, Lit.schema)

\* after the loops: the edges are built and the dataset is returned
BuildEdges ==
  /\ pc = "loop"
  /\ pi > Len(Paths)
  /\ dataset' = [info |-> Jsonable(GetOr(openapi, Lit.info, EmptyDict)),
                 endpoints |-> endpoints,
                 edges |-> Edges(tag_to_endpoints, schema_to_endpoints)]
  /\ pc' = "done"
  /\ UNCHANGED <<openapi, readme_schema, pi, mi, readme_paths, readme_components,
                 endpoints, tag_to_endpoints, schema_to_endpoints, cur, stack, ret,
                 steps, err, run, prev>>

\* build_dataset is called again with the same arguments
Rebuild ==
  /\ pc = "done"
  /\ run < MaxRuns
  /\ run' = run + 1
  /\ prev' = dataset
  /\ dataset' = NoDataset
  /\ pc' = "start"
  /\ UNCHANGED <<openapi, readme_schema, pi, mi, readme_paths, readme_components,
                 endpoints, tag_to_endpoints, schema_to_endpoints, cur, stack, ret,
                 steps, err>>

Next ==
  \/ Start
  \/ SkipPathItem
  \/ SkipMethod
  \/ FlattenOp
  \/ BuildEnter
  \/ BuildResume
  \/ EmitEndpoint
  \/ BuildEdges
  \/ Rebuild

Init ==
  /\ \E inp \in Inputs :
       /\ openapi = inp[1]
       /\ readme_schema = inp[2]
  /\ pc = "start"
  /\ pi = 1
  /\ mi = 1
  /\ readme_paths = Null
  /\ readme_components = EmptyDict
  /\ endpoints = <<>>
  /\ tag_to_endpoints = <<>>
  /\ schema_to_endpoints = <<>>
  /\ cur = NoOp
  /\ stack = <<>>
  /\ ret = NoRet
  /\ steps = 0
  /\ dataset = NoDataset
  /\ err = ""
  /\ run = 1
  /\ prev = NoDataset

Spec == Init /\ [][Next]_vars

(***************************************************************************)
(* The claims.                                                             *)
(***************************************************************************)
\* the (path entry, method) pairs of the primary document that hold an
\* operation mapping under one of the seven verbs
C1_Verbs ==
  {Lit.get, Lit.post, Lit.put, Lit.patch, Lit.delete, Lit.head, Lit.options}

C1_Pairs ==
  {pm \in (1..Len(Paths)) \X C1_Verbs :
     IsDict(Paths[pm[1]][2]) /\ IsDict(Get(Paths[pm[1]][2], pm[2]))}

C1_Matches(e, pm) == e.path = Paths[pm[1]][1] /\ e.method = Upper(pm[2])

\* C1: a finished build has exactly one endpoint record for each (path,
\* method) pair whose path item holds an operation mapping under one of the
\* seven verbs, no record for any other pair, and as many records as pairs.
C1_OneRecordPerOperation ==
  pc = "done" =>
    /\ Len(dataset.endpoints) = Cardinality(C1_Pairs)
    /\ \A pm \in C1_Pairs :
         Cardinality({i \in 1..Len(dataset.endpoints) :
                        C1_Matches(dataset.endpoints[i], pm)}) = 1
    /\ \A i \in 1..Len(dataset.endpoints) :
         \E pm \in C1_Pairs : C1_Matches(dataset.endpoints[i], pm)

\* a finished build of a document with a path item that is no mapping, an
\* operation that is no mapping, a key that is no verb, and three operations
C1_Witness ==
  /\ pc = "done"
  /\ Len(dataset.endpoints) = 3
  /\ \E p \in 1..Len(Paths) : ~IsDict(Paths[p][2])
  /\ \E p \in 1..Len(Paths) :
       /\ IsDict(Paths[p][2])
       /\ IsDict(Get(Paths[p][2], Txt.trace))
       /\ IsStr(Get(Paths[p][2], Lit.get))

\* C2: in a finished build no two endpoint records carry the same id.
C2_UniqueIds ==
  pc = "done" =>
    \A i, j \in 1..Len(dataset.endpoints) :
      dataset.endpoints[i].id = dataset.endpoints[j].id => i = j

\* the records of the dataset that list the schema name among their schemaRefs
C3_Users(name) ==
  {i \in 1..Len(dataset.endpoints) :
     \E k \in 1..Len(dataset.endpoints[i].schemaRefs) :
       dataset.endpoints[i].schemaRefs[k] = name}

C3_TagUsers(tag) ==
  {i \in 1..Len(dataset.endpoints) :
     \E k \in 1..Len(dataset.endpoints[i].tags) : dataset.endpoints[i].tags[k] = tag}

C3_SchemaNames ==
  UNION {{dataset.endpoints[i].schemaRefs[k] : k \in 1..Len(dataset.endpoints[i].schemaRefs)} :
           i \in 1..Len(dataset.endpoints)}

C3_TagNames ==
  UNION {{dataset.endpoints[i].tags[k] : k \in 1..Len(dataset.endpoints[i].tags)} :
           i \in 1..Len(dataset.endpoints)}

C3_HasEdge(type, key) ==
  \E k \in 1..Len(dataset.edges) : dataset.edges[k].type = type /\ dataset.edges[k].key = key

\* C3: in a finished build every schema name in the schemaRefs of two or
\* more endpoint records is the key of at least one "schema" edge, and a
\* schema name or tag used by only one record is the key of no edge.
C3_SharedSchemaHasEdge ==
  pc = "done" =>
    /\ \A name \in C3_SchemaNames :
         /\ Cardinality(C3_Users(name)) >= 2 => C3_HasEdge(Lit.schema, name)
         /\ Cardinality(C3_Users(name)) = 1 => ~C3_HasEdge(Lit.schema, name)
    /\ \A tag \in C3_TagNames :
         Cardinality(C3_TagUsers(tag)) = 1 => ~C3_HasEdge(Lit.tag, tag)

\* a before b in lexicographic order: at the first place where they differ a
\* has the smaller character, or a is a proper prefix of b
C4_Before(a, b) ==
  LET D == {i \in 1..Len(a) : i > Len(b) \/ a[i] # b[i]}
  IN IF D = {} THEN Len(a) < Len(b)
     ELSE LET i == CHOOSE d \in D : \A o \in D : d <= o
          IN i <= Len(b) /\ a[i] < b[i]

\* the member identifiers of the group of a tag, or of a schema name
C4_Members(type, key) ==
  {dataset.endpoints[i].id :
     i \in IF type = Lit.tag THEN C3_TagUsers(key) ELSE C3_Users(key)}

\* the edges of a group, in the order of the edge list
C4_EdgesOf(type, key) ==
  SelectSeq(dataset.edges, LAMBDA e : e.type = type /\ e.key = key)

C4_IsChain(type, key) ==
  LET M == C4_Members(type, key)
      es == C4_EdgesOf(type, key)
  IN Cardinality(M) >= 2 =>
       /\ Len(es) = Cardinality(M) - 1
       /\ {es[k].source : k \in 1..Len(es)} \cup {es[k].target : k \in 1..Len(es)} = M
       /\ \A k \in 1..Len(es) : C4_Before(es[k].source, es[k].target)
       /\ \A k \in 1..(Len(es) - 1) : es[k].target = es[k + 1].source
       /\ \A k \in 1..Len(es) :
            ~\E m \in M : C4_Before(es[k].source, m) /\ C4_Before(m, es[k].target)

\* C4: in a finished build the edges of every tag or schema group with
\* n >= 2 member identifiers are exactly the n-1 edges between consecutive
\* members of the lexicographically sorted member list, in that order, and
\* no edge joins two members that are not consecutive.
C4_GroupEdgesAreSortedChain ==
  pc = "done" =>
    /\ \A tag \in C3_TagNames : C4_IsChain(Lit.tag, tag)
    /\ \A name \in C3_SchemaNames : C4_IsChain(Lit.schema, name)

\* a finished build with a tag shared by three identifiers, chained by two edges
C4_Witness ==
  /\ pc = "done"
  /\ \E tag \in C3_TagNames :
       /\ Cardinality(C4_Members(Lit.tag, tag)) = 3
       /\ Len(C4_EdgesOf(Lit.tag, tag)) = 2

\* C5: a second build of the same primary and secondary document returns
\* the dataset the first build returned, with the endpoint list and the edge
\* list in the same order.
C5_RebuildIsIdentical ==
  (pc = "done" /\ run > 1) => dataset = prev

\* the most nested calls one call of build makes on a node of the value v:
\* one per allOf branch, and then one for the fallback to the first branch,
\* for a combiner's first option or for items, or one per property
RECURSIVE C6_Fanout(_)
C6_Fanout(v) ==
  LET Max(S) == CHOOSE m \in S : \A o \in S : o <= m
      branches == IF IsList(Get(v, Lit.allOf)) THEN Len(Get(v, Lit.allOf)[2]) ELSE 0
      props == IF IsDict(Get(v, Lit.properties)) THEN Len(Get(v, Lit.properties)[2]) ELSE 0
  IN IF IsDict(v)
     THEN Max({branches + Max({1, props})}
              \cup {C6_Fanout(v[2][k][2]) : k \in 1..Len(v[2])})
     ELSE IF IsList(v)
     THEN Max({1} \cup {C6_Fanout(v[2][k]) : k \in 1..Len(v[2])})
     ELSE 1

\* the calls of build with fan-out f down to depth 7, each entered once and
\* resumed once per nested call
RECURSIVE C6_Calls(_, _)
C6_Calls(f, depth) == IF depth = 7 THEN 1 ELSE 1 + f * C6_Calls(f, depth + 1)

C6_StepBound == 2 * C6_Calls(C6_Fanout(readme_schema), 0) - 1

\* every frame is at depth 7 at most, a frame beyond depth 6 has made no
\* nested call, a frame waits for a value exactly when none is at hand, and
\* the calls have taken no more steps than the depth cap allows
C6_DepthBounded ==
  pc = "synth" =>
    /\ \A k \in 1..Len(stack) :
         /\ stack[k].depth <= 7
         /\ stack[k].depth > 6 => stack[k].mode = "enter"
         /\ stack[k].depth = IF k = Len(stack) THEN 0 ELSE stack[k + 1].depth + 1
         /\ k > 1 => stack[k].mode # "enter"
    /\ stack # <<>> => (Head(stack).mode = "enter" <=> ret = NoRet)
    /\ steps <= C6_StepBound

\* a call beyond depth 6 returns None at once
C6_DeepReturnsNone ==
  (pc = "synth" /\ stack # <<>> /\ Head(stack).depth > 6) =>
    (stack' = Tail(stack) /\ ret' = Null)

\* a step of build is counted
C6_StepsCount ==
  (pc = "synth" /\ stack # <<>>) => (pc' = "synth" /\ steps' = steps + 1)

\* C6: the calls of build the fallback makes for an operation return after
\* a bounded number of steps, for every schema and component mapping, cyclic
\* and self-referential ones included; no call is nested deeper than depth
\* 7, and a call beyond depth 6 returns None without a nested call of its own.
C6_BuildTerminatesWithinDepthCap ==
  /\ []C6_DepthBounded
  /\ [][C6_DeepReturnsNone]_vars
  /\ [][C6_StepsCount]_vars

\* the self-referential schema A, entered at depths 0 to 6, just after the
\* call at depth 7 returned None
C6_Witness ==
  /\ pc = "synth"
  /\ Len(stack) = 7
  /\ ret = Null
  /\ \A k \in 1..7 : stack[k].schema = Get(Components, Txt.A) /\ stack[k].depth = 7 - k

\* the node's $ref is "#/components/schemas/<Name>" for a <Name> of the mapping
C7_IsLocalRef(node, schemas) ==
  /\ IsStr(Get(node, Lit.ref))
  /\ \E k \in 1..Len(schemas[2]) : Get(node, Lit.ref)[2] = Lit.ref_prefix \o schemas[2][k][1]

\* C7: for every node build resolves, the resolver returns something other
\* than the node itself only when the node's $ref is the local reference
\* "#/components/schemas/<Name>" with <Name> present in the mapping, and
\* then it returns the definition of <Name>.
C7_ResolvesLocalRefsOnly ==
  (pc = "synth" /\ stack # <<>> /\ Head(stack).mode = "enter") =>
    LET node == Head(stack).schema
        resolved == ResolveRef(node, readme_components)
    IN resolved # node =>
         /\ C7_IsLocalRef(node, readme_components)
         /\ resolved = Get(readme_components, RefName(Get(node, Lit.ref)[2]))

\* the records of a finished build whose operation gave no example of its own
C8_Unanswered ==
  {i \in 1..Len(dataset.endpoints) :
     LET e == dataset.endpoints[i]
         m == CHOOSE v \in C1_Verbs : Upper(v) = e.method
     IN ResponseExamples(Get(Get(Get(openapi, Lit.paths), e.path), m)) = <<>>}

\* C8: with a primary document whose paths is a mapping the build raises
\* nothing, whatever the secondary document is, and when the secondary
\* document is absent or no mapping the records of the operations without an
\* example of their own have an empty responseExamples.
C8_ValidPrimaryNeverRaises ==
  IsDict(Get(openapi, Lit.paths)) =>
    /\ pc # "raised"
    /\ (pc = "done" /\ ~IsDict(readme_schema)) =>
         \A i \in C8_Unanswered : dataset.endpoints[i].responseExamples = <<>>

\* the operation of the primary document an endpoint record was made from
C9_Op(e) ==
  Get(Get(Get(openapi, Lit.paths), e.path), CHOOSE v \in C1_Verbs : Upper(v) = e.method)

\* C9: in a finished build a record whose operation yielded an example for
\* some status has exactly those examples and no synthesized entry; a record
\* whose operation yielded none has either no entry or the one synthesized
\* entry, whose example is not null, not an empty mapping and not an empty
\* sequence.
C9_SynthesisOnlyAsFallback ==
  pc = "done" =>
    \A i \in 1..Len(dataset.endpoints) :
      LET e == dataset.endpoints[i]
          own == ResponseExamples(C9_Op(e))
      IN IF own # <<>>
         THEN e.responseExamples = own
         ELSE \/ e.responseExamples = <<>>
              \/ /\ Len(e.responseExamples) = 1
                 /\ e.responseExamples[1].example \notin {Null, EmptyDict, EmptyList}

\* a finished build whose one record has a synthesized entry
C9_Witness ==
  /\ pc = "done"
  /\ IsDict(readme_schema)
  /\ Len(dataset.endpoints) = 1
  /\ ResponseExamples(C9_Op(dataset.endpoints[1])) = <<>>
  /\ Len(dataset.endpoints[1].responseExamples) = 1
  /\ dataset.endpoints[1].responseExamples[1].example = Num(0)

\* a call of build at depth 6 or less is about to apply its rules
C10_Entering ==
  pc = "synth" /\ stack # <<>> /\ Head(stack).mode = "enter" /\ Head(stack).depth <= 6

\* the call returns v
C10_Returns(v) == stack' = Tail(stack) /\ ret' = v

\* the call makes one nested call, on child, whose value it will return as it is
C10_Delegates(child) ==
  /\ Len(stack') = Len(stack) + 1
  /\ stack'[1] = [schema |-> child, depth |-> Head(stack).depth + 1, mode |-> "enter",
                  i |-> 0, acc |-> Null]
  /\ stack'[2].mode = "first"
  /\ stack'[2].depth = Head(stack).depth
  /\ SubSeq(stack', 3, Len(stack')) = Tail(stack)

C10_HasOptions(s, combiner) ==
  IsList(Get(s, combiner)) /\ Len(Get(s, combiner)[2]) >= 1

C10_HasMappingOption(s, combiner) ==
  C10_HasOptions(s, combiner) /\ IsDict(Get(s, combiner)[2][1])

\* a frame that delegated returns the value of its nested call
C10_PassesOn ==
  (pc = "synth" /\ stack # <<>> /\ Head(stack).mode = "first") => C10_Returns(ret)

C10_StepAsClaimed ==
  /\ C10_PassesOn
  /\ C10_Entering =>
       LET s == ResolveRef(Head(stack).schema, readme_components)
       IN IF HasKey(s, Lit.example) THEN C10_Returns(Get(s, Lit.example))
          ELSE IF IsList(Get(s, Lit.enum)) /\ Len(Get(s, Lit.enum)[2]) >= 1
          THEN C10_Returns(Get(s, Lit.enum)[2][1])
          ELSE IF C10_HasOptions(s, Lit.oneOf) \/ C10_HasOptions(s, Lit.anyOf)
          THEN \E c \in {Lit.oneOf, Lit.anyOf} :
                 C10_HasOptions(s, c) /\ C10_Delegates(Get(s, c)[2][1])
          ELSE TRUE

\* C10 as stated: on the resolved node an example is returned verbatim
\* whatever else is declared; otherwise a non-empty enum gives its first
\* element; otherwise oneOf/anyOf with at least one option gives the
\* synthesis of its first option only.
C10_PriorityAsClaimed == [][C10_StepAsClaimed]_vars

C10_StepAmended ==
  /\ C10_PassesOn
  /\ C10_Entering =>
       LET s == ResolveRef(Head(stack).schema, readme_components)
       IN IF HasKey(s, Lit.example) THEN C10_Returns(Get(s, Lit.example))
          ELSE IF IsList(Get(s, Lit.enum)) /\ Len(Get(s, Lit.enum)[2]) >= 1
          THEN C10_Returns(Get(s, Lit.enum)[2][1])
          ELSE IF C10_HasMappingOption(s, Lit.oneOf) \/ C10_HasMappingOption(s, Lit.anyOf)
          THEN \E c \in {Lit.oneOf, Lit.anyOf} :
                 C10_HasMappingOption(s, c) /\ C10_Delegates(Get(s, c)[2][1])
          ELSE TRUE

\* C10 amended: as stated, but oneOf/anyOf gives the synthesis of its first
\* option only when that first option is a mapping; a combiner whose first
\* option is no mapping is passed over.
C10_PriorityOrder == [][C10_StepAmended]_vars

\* the enum ["y", "x"] gave "y" for a node that also declares oneOf, anyOf,
\* allOf and a type, and no example
C10_Witness ==
  /\ pc = "synth"
  /\ stack = <<>>
  /\ ret = Str(Txt.y)
  /\ \E s \in PrioritySchemas :
       /\ readme_schema = ReadmeWith(s)
       /\ ~HasKey(s, Lit.example)
       /\ Get(s, Lit.enum) = List(<<Str(Txt.y), Str(Txt.x)>>)
       /\ HasKey(s, Lit.oneOf) /\ HasKey(s, Lit.anyOf) /\ HasKey(s, Lit.allOf)
       /\ HasKey(s, Lit.type)

\* the entries of the parameters list of a path item or an operation
C11_Declared(v) ==
  IF IsList(Get(v, Lit.parameters)) THEN Get(v, Lit.parameters)[2] ELSE <<>>

\* the path-level entries followed by the operation-level entries of the
\* operation an endpoint record was made from
C11_Merged(e) ==
  C11_Declared(Get(Get(openapi, Lit.paths), e.path)) \o C11_Declared(C9_Op(e))

C11_At(p, where) == IsDict(p) /\ Get(p, Lit.in_) = Str(where)

C11_Named(p, where) == C11_At(p, where) /\ IsStr(Get(p, Lit.name))

\* the bucket holds, in order, one item for each of the parameters ps
C11_Holds(bucket, ps, where) ==
  /\ Len(bucket) = Len(ps)
  /\ \A k \in 1..Len(bucket) :
       k <= Len(ps) => (Str(bucket[k].name) = Get(ps[k], Lit.name) /\ bucket[k].in_ = where)

C11_Buckets(e) ==
  <<<<Lit.query, e.queryParams>>, <<Lit.path, e.pathParams>>, <<Lit.header, e.headerParams>>>>

\* C11 as stated: in a finished build each bucket of a record holds, in
\* merged order (path-level first, nothing de-duplicated), exactly the merged
\* parameters that declare the bucket's location.
C11_EveryLocatedParameterKept ==
  pc = "done" =>
    \A i \in 1..Len(dataset.endpoints) : \A b \in 1..3 :
      LET e == dataset.endpoints[i]
          where == C11_Buckets(e)[b][1]
      IN C11_Holds(C11_Buckets(e)[b][2],
                   SelectSeq(C11_Merged(e), LAMBDA p : C11_At(p, where)), where)

\* C11 amended: in a finished build each bucket of a record holds, in
\* merged order (path-level first, nothing de-duplicated), exactly the merged
\* parameters that declare the bucket's location and have a string name; a
\* parameter without a string name is in no bucket, as is one with another
\* or no location.
C11_ParamsMergedAndPartitioned ==
  pc = "done" =>
    \A i \in 1..Len(dataset.endpoints) : \A b \in 1..3 :
      LET e == dataset.endpoints[i]
          where == C11_Buckets(e)[b][1]
      IN C11_Holds(C11_Buckets(e)[b][2],
                   SelectSeq(C11_Merged(e), LAMBDA p : C11_Named(p, where)), where)

\* a record with the path-level "id" followed by the operation-level "id" in
\* pathParams, "limit" in queryParams and "m" alone in headerParams, made
\* from lists that also hold a cookie parameter and a nameless header one
C11_Witness ==
  /\ pc = "done"
  /\ \E i \in 1..Len(dataset.endpoints) :
       LET e == dataset.endpoints[i]
       IN /\ [k \in 1..Len(e.pathParams) |-> <<e.pathParams[k].name, e.pathParams[k].required>>]
               = <<<<Txt.id, TRUE>>, <<Txt.id, FALSE>>>>
          /\ [k \in 1..Len(e.queryParams) |-> e.queryParams[k].name] = <<Txt.limit>>
          /\ [k \in 1..Len(e.headerParams) |-> e.headerParams[k].name] = <<Txt.m>>
          /\ Len(C11_Merged(e)) = 7

\* the schema handed to the call of build that has just returned
C12_Top ==
  ResolveRef(FallbackSchema(Paths[pi][1], METHODS[mi], Get(Paths[pi][2], METHODS[mi])),
             readme_components)

\* the call of build for the current operation has returned
C12_Returned == pc = "synth" /\ stack = <<>> /\ ret # NoRet

\* no earlier rule answers for the node and it declares a non-empty allOf
C12_ReachesAllOf(s) ==
  /\ ~HasKey(s, Lit.example)
  /\ ~(IsList(Get(s, Lit.enum)) /\ Len(Get(s, Lit.enum)[2]) >= 1)
  /\ ~C10_HasMappingOption(s, Lit.oneOf)
  /\ ~C10_HasMappingOption(s, Lit.anyOf)
  /\ IsList(Get(s, Lit.allOf)) /\ Len(Get(s, Lit.allOf)[2]) >= 1

\* what the k-th branch synthesizes to, for a branch that is a mapping
C12_Yield(s, k) == Build(Get(s, Lit.allOf)[2][k], 1, readme_components)

\* the branches that yield a mapping
C12_Yielding(s) ==
  {k \in 1..Len(Get(s, Lit.allOf)[2]) :
     IsDict(Get(s, Lit.allOf)[2][k]) /\ IsDict(C12_Yield(s, k))}

\* the mappings of the branches from the k-th on laid over acc in order
RECURSIVE C12_MergeFrom(_, _, _)
C12_MergeFrom(s, k, acc) ==
  IF k > Len(Get(s, Lit.allOf)[2]) THEN acc
  ELSE C12_MergeFrom(s, k + 1,
                     IF k \in C12_Yielding(s) THEN Update(acc, C12_Yield(s, k)) ELSE acc)

\* C12: a call of build on a node that reaches the allOf rule returns the
\* shallow merge of the mappings its branches synthesize to, later branches
\* overwriting earlier ones, whenever some branch yields a mapping, an empty
\* one included; only when no branch yields a mapping does it return what
\* the first branch alone synthesizes to.
C12_AllOfMergesOrFallsBack ==
  (C12_Returned /\ C12_ReachesAllOf(C12_Top)) =>
    IF C12_Yielding(C12_Top) # {}
    THEN ret = C12_MergeFrom(C12_Top, 1, EmptyDict)
    ELSE IsDict(Get(C12_Top, Lit.allOf)[2][1]) => ret = C12_Yield(C12_Top, 1)

\* no earlier rule answers for the node and its type is array
C13_ReachesArray(s) ==
  /\ ~HasKey(s, Lit.example)
  /\ ~(IsList(Get(s, Lit.enum)) /\ Len(Get(s, Lit.enum)[2]) >= 1)
  /\ ~C10_HasMappingOption(s, Lit.oneOf)
  /\ ~C10_HasMappingOption(s, Lit.anyOf)
  /\ ~(IsList(Get(s, Lit.allOf)) /\ Len(Get(s, Lit.allOf)[2]) >= 1)
  /\ Get(s, Lit.type) # Str(Lit.object) /\ ~IsDict(Get(s, Lit.properties))
  /\ Get(s, Lit.type) = Str(Lit.array)

\* the call makes one nested call, on the node's items, and waits for its value
C13_SynthesizesItems(s) ==
  /\ Len(stack') = Len(stack) + 1
  /\ stack'[1] = [schema |-> Get(s, Lit.items), depth |-> Head(stack).depth + 1,
                  mode |-> "enter", i |-> 0, acc |-> Null]
  /\ stack'[2].mode = "items"
  /\ stack'[2].depth = Head(stack).depth
  /\ SubSeq(stack', 3, Len(stack')) = Tail(stack)

\* the value of the items has come back to the array rule
C13_ItemsCameBack == pc = "synth" /\ stack # <<>> /\ Head(stack).mode = "items"

C13_StepAsClaimed ==
  /\ C13_ItemsCameBack => C10_Returns(List(<<ret>>))
  /\ C10_Entering =>
       LET s == ResolveRef(Head(stack).schema, readme_components)
       IN C13_ReachesArray(s) =>
            IF HasKey(s, Lit.items) THEN C13_SynthesizesItems(s)
            ELSE C10_Returns(EmptyList)

\* C13 as stated: on a node of type array build synthesizes items once and
\* returns the one-element sequence of that value; it returns the empty
\* sequence only if items is absent.
C13_ArrayAsClaimed == [][C13_StepAsClaimed]_vars

C13_StepAmended ==
  /\ C13_ItemsCameBack => C10_Returns(IF ret # Null THEN List(<<ret>>) ELSE EmptyList)
  /\ C10_Entering =>
       LET s == ResolveRef(Head(stack).schema, readme_components)
       IN C13_ReachesArray(s) =>
            IF IsDict(Get(s, Lit.items)) THEN C13_SynthesizesItems(s)
            ELSE C10_Returns(EmptyList)

\* C13 amended: on a node of type array whose items is a mapping build
\* synthesizes items once and returns the one-element sequence of that
\* value, or the empty sequence when that value is null; it returns the
\* empty sequence also when items is absent or is no mapping.
C13_ArrayOfOneItem == [][C13_StepAmended]_vars

\* the array of integers gave [0]
C13_Witness ==
  /\ C12_Returned
  /\ C12_Top = Dict(<<<<Lit.type, Str(Lit.array)>>, <<Lit.items, Typed(Lit.integer)>>>>)
  /\ ret = List(<<Num(0)>>)

====
